---- MODULE Spec2Model ----
(***************************************************************************)
(* Model of EasyDocOCR's app.py: the OCRGUI foreground handlers            *)
(* (select_image, select_pdf, process_file, save_text, the Tk after(0)     *)
(* callback queue) and the worker threads running _process_file_thread,    *)
(* one step per source line that touches state shared with the foreground. *)
(***************************************************************************)
EXTENDS Integers, Sequences, FiniteSets, TLC

\* ------------------------------------------------------------------ bounds
\* Number of worker threads process_file may start in one behaviour.
MaxJobs == 2
\* Page count of the largest document.
MaxPages == 2
\* Number of things the user does (button clicks, edits of the language entry)
\* in one behaviour.
MaxGestures == 3

\* ------------------------------------------------------- the outside world
\* Python's None, the initial current_image_path.
None == "None"

\* Files the dialogs can return.  "multi.PDF" has MaxPages pages.
Files == {"scan.png", "one.pdf", "multi.PDF", "empty.pdf"}

\* Texts the user can type into the language entry; "xx" is not installed.
Langs == {"eng", "xx"}

\* Path the save dialog can return.
SavePaths == {"out.txt"}

\* What each file really holds, whatever its name says.
IsDocument(path) == path \in {"one.pdf", "multi.PDF", "empty.pdf"}

NumPages(path) ==
    CASE path = "one.pdf" -> 1
      [] path = "multi.PDF" -> MaxPages
      [] path = "empty.pdf" -> 0
      [] OTHER -> 1

\* os.path.splitext(path)[1]
splitext(path) ==
    CASE path = "scan.png" -> ".png"
      [] path = "one.pdf" -> ".pdf"
      [] path = "multi.PDF" -> ".PDF"
      [] path = "empty.pdf" -> ".pdf"
      [] OTHER -> ""

\* str.lower on the extensions above
lower(ext) ==
    CASE ext = ".PDF" -> ".pdf"
      [] OTHER -> ext

\* os.path.basename: the model's paths have no directory part.
basename(path) == path

\* ------------------------------------------------------------------- text
\* A string is a sequence of tokens; every token has the same shape.
NL == [k |-> "nl", f |-> "", p |-> 0, l |-> ""]

\* The line "--- Page <n> ---"
Marker(n) == [k |-> "marker", f |-> "", p |-> n, l |-> ""]

\* What the engine recognises on page p of file f under language l: opaque.
OcrToken(f, p, l) == [k |-> "ocr", f |-> f, p |-> p, l |-> l]

\* sep.join(parts)
RECURSIVE join(_, _)
join(sep, parts) ==
    IF parts = <<>> THEN <<>>
    ELSE IF Len(parts) = 1 THEN parts[1]
    ELSE parts[1] \o sep \o join(sep, Tail(parts))

\* str.strip() leaves nothing: only whitespace tokens.
IsBlank(s) == \A n \in 1..Len(s) : s[n].k = "nl"

\* ---------------------------------------------------------------- progress
\* A progress value is the fraction num/den of a percent, in lowest terms.
RECURSIVE gcd(_, _)
gcd(a, b) == IF b = 0 THEN a ELSE gcd(b, a % b)

Frac(num, den) == <<num \div gcd(num, den), den \div gcd(num, den)>>

Zero == Frac(0, 1)
Hundred == Frac(100, 1)

\* ------------------------------------------------------------------- state
VARIABLES
    current_image_path,  \* self.current_image_path
    language_entry,      \* text of self.language_entry
    ocr_language,        \* self.ocr_language
    status_label,        \* text of self.status_label
    progress_var,        \* self.progress_var
    text_output,         \* content of self.text_output (without Tk's final newline)
    preview_canvas,      \* what self.preview_canvas shows
    dialog,              \* the last messagebox shown
    after_queue,         \* callbacks scheduled with root.after(0, ...), oldest first
    threads,             \* threads[j]: the j-th thread process_file started
    nthreads,            \* how many threads process_file has started
    disk,                \* the file save_text wrote
    gestures             \* how many things the user has done

vars == <<current_image_path, language_entry, ocr_language, status_label,
          progress_var, text_output, preview_canvas, dialog, after_queue,
          threads, nthreads, disk, gestures>>

\* What only the foreground (the Tk main loop and the user) changes.
foreground == <<current_image_path, language_entry, ocr_language, status_label,
                text_output, preview_canvas, dialog, disk, gestures>>

Jobs == 1..MaxJobs

\* The output file before save_text has written it.
NoFile == [exists |-> FALSE, content |-> <<>>]

\* The exception variable e of the handler at line 240 when it holds nothing.
Unbound == "unbound"

\* A thread that has not been started.  The fields below `e` are the locals of
\* _process_file_thread; the rest record what the thread did:
\*   req_path, req_lang  path and language at the Process click that started it
\*   path_reads, lang_reads  values of self.current_image_path / self.ocr_language it read
\*   emitted    the values it set progress_var to, in order
\*   ocr_calls  its image_to_string calls, in order, as <<file, page, language,
\*              whether the call returned>>
\*   events     what it sent towards the foreground, in order: "progress" for a
\*              progress_var.set, else the callback it scheduled
\*   notice     what became of its error callback in the foreground
NotStarted ==
    [pc |-> "idle", file_extension |-> "", images_src |-> None, images_n |-> 0,
     i |-> 0, text_results |-> <<>>, final_text |-> <<>>, e |-> Unbound,
     req_path |-> None, req_lang |-> "", path_reads |-> {}, lang_reads |-> {},
     emitted |-> <<>>, ocr_calls |-> <<>>, events |-> <<>>, notice |-> "none"]

Running(j) == threads[j].pc \notin {"idle", "done"}

Init ==
    /\ current_image_path = None
    /\ language_entry = "eng"
    /\ ocr_language = "eng"
    /\ status_label = <<"Ready">>
    /\ progress_var = Zero
    /\ text_output = <<>>
    /\ preview_canvas = "blank"
    /\ dialog = <<"none">>
    /\ after_queue = <<>>
    /\ threads = [j \in Jobs |-> NotStarted]
    /\ nthreads = 0
    /\ disk = NoFile
    /\ gestures = 0

\* ------------------------------------------------- callbacks (root.after)
StatusCallback(j, text) == [k |-> "status", job |-> j, status |-> text, text |-> <<>>]
TextCallback(j, text) == [k |-> "text", job |-> j, status |-> <<>>, text |-> text]
ErrorCallback(j) == [k |-> "error", job |-> j, status |-> <<>>, text |-> <<>>]

\* A scheduler that runs the newest callback first.
after_newest_first(cb) == after_queue' = <<cb>> \o after_queue

\* root.after(0, cb): Tk runs after(0) callbacks in the order they were scheduled.
after(cb) == after_queue' = Append(after_queue, cb)

\* --------------------------------------------- the external engines' answers
\* pdf2image.convert_from_path(path): the page count, or it raises.  Poppler
\* cannot read an image file; on a document it may still fail (no toolchain).
CanRasterize(path) == IsDocument(path)

\* PIL.Image.open(path): raises on a file that is no image.
CanDecode(path) == path \in Files /\ ~IsDocument(path)

\* pytesseract.image_to_string(image, lang=lang): raises when the language is
\* not installed; the engine process may fail on any call.
CanRecognize(lang) == lang = "eng"

\* --------------------------------------------------- _process_file_thread
\* Line 226 without the marker line.
PageSection_unmarked(i, text) == text

\* f"--- Page {i+1} ---\n{text}"  (line 226; i is the 0-based loop index)
PageSection(i, text) == <<Marker(i + 1), NL>> \o text

\* Line 228 joining with one newline.
FinalText_newline(text_results) == join(<<NL>>, text_results)

\* '\n\n'.join(text_results)  (line 228)
FinalText(text_results) == join(<<NL, NL>>, text_results)

\* Line 227 with the 0-based index for the count of finished pages.
PageProgress_index(i, n) == Frac(i * 100, n)

\* (i + 1) / len(images) * 100  (line 227)
PageProgress(i, n) == Frac((i + 1) * 100, n)

\* os.path.splitext(self.current_image_path)[1].lower()  (line 216)
FileExtension(path) == lower(splitext(path))

\* file_extension == '.pdf'  (line 220)
IsPdfBranch(ext) == ext = ".pdf"

\* One field update of thread j.
Set(j, upd) == threads' = [threads EXCEPT ![j] = upd]

\* An exception swallowed where it is raised: the thread goes on to line 228
\* with the pages it has.
Raise_continue(j, t, err) == Set(j, [t EXCEPT !.pc = "L228"])

\* An exception reaches the handler at line 240: e is bound, line 241 logs.
Raise(j, t, err) == Set(j, [t EXCEPT !.pc = "L242", !.e = err])

\* line 213: schedule the "Processing..." status
W_L213(j) ==
    /\ threads[j].pc = "L213"
    /\ after(StatusCallback(j, <<"Processing...">>))
    /\ Set(j, [threads[j] EXCEPT !.pc = "L214",
                                 !.events = Append(@, "Processing...")])
    /\ UNCHANGED <<foreground, progress_var, nthreads>>

\* line 214: self.progress_var.set(0), called in the worker thread
W_L214(j) ==
    /\ threads[j].pc = "L214"
    /\ progress_var' = Zero
    /\ Set(j, [threads[j] EXCEPT !.pc = "L216",
                                 !.emitted = Append(@, Zero),
                                 !.events = Append(@, "progress")])
    /\ UNCHANGED <<foreground, after_queue, nthreads>>

\* line 216: the extension of the path that is current now
W_L216(j) ==
    /\ threads[j].pc = "L216"
    /\ Set(j, [threads[j] EXCEPT
                 !.pc = "L220",
                 !.file_extension = FileExtension(current_image_path),
                 !.path_reads = @ \cup {current_image_path}])
    /\ UNCHANGED <<foreground, progress_var, after_queue, nthreads>>

\* lines 220-222 and 231: resolve the pages of the path that is current now.
\* Either engine may also fail on a file it can read (file removed, toolchain
\* missing).
W_Resolve(j) ==
    LET t == threads[j]
        path == current_image_path
        read == [t EXCEPT !.path_reads = @ \cup {path}]
    IN  /\ t.pc = "L220"
        /\ IF IsPdfBranch(t.file_extension)
           THEN \/ /\ CanRasterize(path)
                   /\ Set(j, [read EXCEPT
                                !.images_src = path,
                                !.images_n = NumPages(path),
                                !.pc = IF NumPages(path) = 0 THEN "L228" ELSE "L225"])
                \/ Raise(j, read, "RasterizationError")
           ELSE \/ /\ CanDecode(path)
                   /\ Set(j, [read EXCEPT !.images_src = path, !.images_n = 1,
                                           !.pc = "L233"])
                \/ Raise(j, read, "ImageDecodeError")
        /\ UNCHANGED <<foreground, progress_var, after_queue, nthreads>>

\* lines 224-226: preprocess and recognise page i+1 with the language that is
\* current now, and append its section
W_L225(j) ==
    LET t == threads[j]
        lang == ocr_language
        call == [t EXCEPT !.lang_reads = @ \cup {lang},
                          !.ocr_calls = Append(@, <<t.images_src, t.i + 1, lang, FALSE>>)]
        ret == [call EXCEPT !.ocr_calls[Len(call.ocr_calls)][4] = TRUE]
    IN  /\ t.pc = "L225"
        /\ \/ /\ CanRecognize(lang)
              /\ Set(j, [ret EXCEPT
                           !.text_results = Append(@,
                               PageSection(t.i, <<OcrToken(t.images_src, t.i + 1, lang)>>)),
                           !.pc = "L227"])
           \/ Raise(j, call, "RecognitionError")
        /\ UNCHANGED <<foreground, progress_var, after_queue, nthreads>>

\* line 227: self.progress_var.set(...), called in the worker thread; then the
\* loop of line 223 goes on or ends
W_L227(j) ==
    LET t == threads[j]
    IN  /\ t.pc = "L227"
        /\ progress_var' = PageProgress(t.i, t.images_n)
        /\ Set(j, [t EXCEPT !.emitted = Append(@, PageProgress(t.i, t.images_n)),
                            !.events = Append(@, "progress"),
                            !.i = t.i + 1,
                            !.pc = IF t.i + 1 < t.images_n THEN "L225" ELSE "L228"])
        /\ UNCHANGED <<foreground, after_queue, nthreads>>

\* line 228
W_L228(j) ==
    LET t == threads[j]
    IN  /\ t.pc = "L228"
        /\ Set(j, [t EXCEPT !.final_text = FinalText(t.text_results), !.pc = "L237"])
        /\ UNCHANGED <<foreground, progress_var, after_queue, nthreads>>

\* Line 233 giving the image the section format of a document's page.
ImageText_marked(text) == <<Marker(1), NL>> \o text

\* The text of the image branch: the engine's output, as it is.  (line 233)
ImageText(text) == text

\* lines 232-233: preprocess and recognise the image
W_L233(j) ==
    LET t == threads[j]
        lang == ocr_language
        call == [t EXCEPT !.lang_reads = @ \cup {lang},
                          !.ocr_calls = Append(@, <<t.images_src, 1, lang, FALSE>>)]
        ret == [call EXCEPT !.ocr_calls[Len(call.ocr_calls)][4] = TRUE]
    IN  /\ t.pc = "L233"
        /\ \/ /\ CanRecognize(lang)
              /\ Set(j, [ret EXCEPT
                           !.final_text = ImageText(<<OcrToken(t.images_src, 1, lang)>>),
                           !.pc = "L234"])
           \/ Raise(j, call, "RecognitionError")
        /\ UNCHANGED <<foreground, progress_var, after_queue, nthreads>>

\* line 234: self.progress_var.set(100), called in the worker thread
W_L234(j) ==
    /\ threads[j].pc = "L234"
    /\ progress_var' = Hundred
    /\ Set(j, [threads[j] EXCEPT !.emitted = Append(@, Hundred),
                                 !.events = Append(@, "progress"), !.pc = "L237"])
    /\ UNCHANGED <<foreground, after_queue, nthreads>>

\* line 237: schedule _update_text_output(final_text)
W_L237(j) ==
    /\ threads[j].pc = "L237"
    /\ after(TextCallback(j, threads[j].final_text))
    /\ Set(j, [threads[j] EXCEPT !.events = Append(@, "text"), !.pc = "L238"])
    /\ UNCHANGED <<foreground, progress_var, nthreads>>

\* Line 238 with the handler's lines written as a "finally": they run after a
\* success too.
W_L238_finally(j) ==
    /\ threads[j].pc = "L238"
    /\ after(StatusCallback(j, <<"Processing complete">>))
    /\ Set(j, [threads[j] EXCEPT !.pc = "L242",
                                 !.events = Append(@, "Processing complete")])
    /\ UNCHANGED <<foreground, progress_var, nthreads>>

\* line 238: schedule the "Processing complete" status; the thread ends
W_L238(j) ==
    /\ threads[j].pc = "L238"
    /\ after(StatusCallback(j, <<"Processing complete">>))
    /\ Set(j, [threads[j] EXCEPT !.pc = "done",
                                 !.events = Append(@, "Processing complete")])
    /\ UNCHANGED <<foreground, progress_var, nthreads>>

\* line 242: schedule the error dialog; the lambda reads e when it is run
W_L242(j) ==
    /\ threads[j].pc = "L242"
    /\ after(ErrorCallback(j))
    /\ Set(j, [threads[j] EXCEPT !.events = Append(@, "error"), !.pc = "L243"])
    /\ UNCHANGED <<foreground, progress_var, nthreads>>

\* Line 243 putting the status back to the text of line 129.
W_L243_ready(j) ==
    /\ threads[j].pc = "L243"
    /\ after(StatusCallback(j, <<"Ready">>))
    /\ Set(j, [threads[j] EXCEPT !.pc = "L244",
                                 !.events = Append(@, "Error processing file")])
    /\ UNCHANGED <<foreground, progress_var, nthreads>>

\* line 243: schedule the "Error processing file" status
W_L243(j) ==
    /\ threads[j].pc = "L243"
    /\ after(StatusCallback(j, <<"Error processing file">>))
    /\ Set(j, [threads[j] EXCEPT !.pc = "L244",
                                 !.events = Append(@, "Error processing file")])
    /\ UNCHANGED <<foreground, progress_var, nthreads>>

\* The handler of line 240 ends: Python deletes e ("except ... as e" unbinds
\* the name when the block is left); the thread ends.
W_EndExcept(j) ==
    /\ threads[j].pc = "L244"
    /\ Set(j, [threads[j] EXCEPT !.e = Unbound, !.pc = "done"])
    /\ UNCHANGED <<foreground, progress_var, after_queue, nthreads>>

\* Any step of worker thread j.
Worker(j) ==
    \/ W_L213(j) \/ W_L214(j) \/ W_L216(j) \/ W_Resolve(j)
    \/ W_L225(j) \/ W_L227(j) \/ W_L228(j)
    \/ W_L233(j) \/ W_L234(j)
    \/ W_L237(j) \/ W_L238(j)
    \/ W_L242(j) \/ W_L243(j) \/ W_EndExcept(j)

\* ------------------------------------------------------ foreground handlers
\* display_preview(image_path): the scaled image on the canvas, or an error
\* dialog when the file cannot be opened as an image  (lines 165-191)
display_preview(image_path) ==
    IF CanDecode(image_path)
    THEN preview_canvas' = image_path /\ dialog' = dialog
    ELSE preview_canvas' = preview_canvas
         /\ dialog' = <<"error", "Failed to display image preview">>

\* select_image; filename "" is a cancelled dialog.  The "All files" filter
\* lets the user pick any file.
select_image(filename) ==
    /\ IF filename # ""
       THEN /\ current_image_path' = filename
            /\ display_preview(filename)
            /\ status_label' = <<"Selected: ", basename(filename)>>
       ELSE UNCHANGED <<current_image_path, preview_canvas, dialog, status_label>>
    /\ UNCHANGED <<language_entry, ocr_language, progress_var, text_output,
                   after_queue, threads, nthreads, disk>>

\* select_pdf
select_pdf(filename) ==
    /\ IF filename # ""
       THEN /\ current_image_path' = filename
            /\ status_label' = <<"Selected PDF: ", basename(filename)>>
            /\ preview_canvas' = "PDF Document (Preview not available)"
       ELSE UNCHANGED <<current_image_path, preview_canvas, status_label>>
    /\ UNCHANGED <<language_entry, ocr_language, progress_var, text_output, dialog,
                   after_queue, threads, nthreads, disk>>

\* The user types a language code into the entry.
EditLanguage(lang) ==
    /\ language_entry # lang
    /\ language_entry' = lang
    /\ UNCHANGED <<current_image_path, ocr_language, status_label, progress_var,
                   text_output, preview_canvas, dialog, after_queue, threads,
                   nthreads, disk>>

\* threading.Thread(target=self._process_file_thread).start()  (lines 202-204)
StartThread ==
    /\ nthreads' = nthreads + 1
    /\ threads' = [threads EXCEPT ![nthreads + 1] =
                     [NotStarted EXCEPT !.pc = "L213",
                                        !.req_path = current_image_path,
                                        !.req_lang = language_entry]]

\* process_file without the check of lines 195-197.
process_file_unchecked ==
    /\ nthreads < MaxJobs
    /\ ocr_language' = language_entry
    /\ StartThread
    /\ UNCHANGED <<current_image_path, language_entry, status_label,
                   progress_var, text_output, preview_canvas, dialog,
                   after_queue, disk>>

\* process_file: the Process button
process_file ==
    IF current_image_path = None
    THEN /\ dialog' = <<"warning", "Please select a file first">>
         /\ UNCHANGED <<current_image_path, language_entry, ocr_language,
                        status_label, progress_var, text_output, preview_canvas,
                        after_queue, threads, nthreads, disk>>
    ELSE /\ nthreads < MaxJobs
         /\ ocr_language' = language_entry
         /\ StartThread
         /\ UNCHANGED <<current_image_path, language_entry, status_label,
                        progress_var, text_output, preview_canvas, dialog,
                        after_queue, disk>>

\* _update_text_output without the delete of line 247: the text is inserted at
\* 1.0, before what the widget holds.
_update_text_output_insert(text) == text_output' = text \o text_output

\* _update_text_output(text): delete everything, insert the text
_update_text_output(text) == text_output' = text

\* The foreground runs the oldest scheduled callback.  The error lambda of
\* line 242 evaluates str(e) now: when the handler has already ended, e is
\* unbound, the lambda raises NameError and no dialog is shown.
RunCallback ==
    /\ after_queue # <<>>
    /\ after_queue' = Tail(after_queue)
    /\ LET cb == Head(after_queue)
       IN  CASE cb.k = "status" ->
                  /\ status_label' = cb.status
                  /\ UNCHANGED <<text_output, dialog, threads>>
             [] cb.k = "text" ->
                  /\ _update_text_output(cb.text)
                  /\ UNCHANGED <<status_label, dialog, threads>>
             [] cb.k = "error" ->
                  /\ IF threads[cb.job].e # Unbound
                     THEN /\ dialog' = <<"error", "Failed to process file: ",
                                         threads[cb.job].e>>
                          /\ Set(cb.job, [threads[cb.job] EXCEPT !.notice = "shown"])
                     ELSE /\ dialog' = dialog
                          /\ Set(cb.job, [threads[cb.job] EXCEPT !.notice = "NameError"])
                  /\ UNCHANGED <<status_label, text_output>>
    /\ UNCHANGED <<current_image_path, language_entry, ocr_language, progress_var,
                   preview_canvas, nthreads, disk, gestures>>

\* self.text_output.get(1.0, tk.END): Tk's text widget ends with a newline
TextGet == text_output \o <<NL>>

\* save_text; filename "" is a cancelled dialog, ok is whether the write succeeds
save_text(filename, ok) ==
    /\ IF IsBlank(TextGet)
       THEN /\ dialog' = <<"warning", "No text to save">>
            /\ UNCHANGED <<disk, status_label>>
       ELSE IF filename = ""
       THEN UNCHANGED <<dialog, disk, status_label>>
       ELSE IF ok
       THEN /\ disk' = [exists |-> TRUE, content |-> TextGet]
            /\ status_label' = <<"Saved to: ", basename(filename)>>
            /\ dialog' = dialog
       ELSE /\ dialog' = <<"error", "Failed to save file: ", "FileWriteError">>
            /\ UNCHANGED <<disk, status_label>>
    /\ UNCHANGED <<current_image_path, language_entry, ocr_language, progress_var,
                   text_output, preview_canvas, after_queue, threads, nthreads>>

\* ------------------------------------------------------------ the program
\* The user does something: runs handler A.
User(A) == gestures < MaxGestures /\ A /\ gestures' = gestures + 1

Next ==
    \/ User(\E f \in Files \cup {""} : select_image(f))
    \/ User(\E f \in Files \cup {""} : select_pdf(f))
    \/ User(\E l \in Langs : EditLanguage(l))
    \/ User(process_file)
    \/ User(\E f \in SavePaths \cup {""}, ok \in BOOLEAN : save_text(f, ok))
    \/ RunCallback
    \/ \E j \in Jobs : W_L213(j)
    \/ \E j \in Jobs : W_L214(j)
    \/ \E j \in Jobs : W_L216(j)
    \/ \E j \in Jobs : W_Resolve(j)
    \/ \E j \in Jobs : W_L225(j)
    \/ \E j \in Jobs : W_L227(j)
    \/ \E j \in Jobs : W_L228(j)
    \/ \E j \in Jobs : W_L233(j)
    \/ \E j \in Jobs : W_L234(j)
    \/ \E j \in Jobs : W_L237(j)
    \/ \E j \in Jobs : W_L238(j)
    \/ \E j \in Jobs : W_L242(j)
    \/ \E j \in Jobs : W_L243(j)
    \/ \E j \in Jobs : W_EndExcept(j)

Spec == Init /\ [][Next]_vars

\* ------------------------------------------------------------------ claims
Started == {j \in Jobs : threads[j].pc # "idle"}

Done(j) == threads[j].pc = "done"

\* The events that make a Job Outcome.
OutcomeEvents == {"text", "Processing complete", "error", "Error processing file"}

SuccessOutcome == <<"text", "Processing complete">>
FailureOutcome == <<"error", "Error processing file">>

\* How many of thread j's events are not part of an outcome.
Preamble(j) ==
    Cardinality({n \in 1..Len(threads[j].events) : threads[j].events[n] \notin OutcomeEvents})

\* The events of thread j from its first outcome event on.
OutcomePart(j) == SubSeq(threads[j].events, Preamble(j) + 1, Len(threads[j].events))

\* C1: every thread process_file starts sends progress updates first and then
\* exactly one outcome, the success pair (text, "Processing complete") or the
\* failure pair (error dialog, "Error processing file"): never both, and, as a
\* running thread always has a next step and ends only at "done", never neither.
C1_ExactlyOneOutcome ==
    \A j \in Jobs :
        /\ \A n \in 1..Preamble(j) : threads[j].events[n] \in {"Processing...", "progress"}
        /\ OutcomePart(j) \in {<<>>, <<"text">>, SuccessOutcome, <<"error">>, FailureOutcome}
        /\ Done(j) => OutcomePart(j) \in {SuccessOutcome, FailureOutcome}
        /\ Running(j) => ENABLED Worker(j)

\* C1 witness: one thread has ended with a success outcome and another with a
\* failure outcome.
C1_Witness ==
    \E j, k \in Jobs :
        /\ Done(j) /\ OutcomePart(j) = SuccessOutcome
        /\ Done(k) /\ OutcomePart(k) = FailureOutcome

\* C2: at most one thread runs _process_file_thread at a time.
C2_AtMostOneActiveJob == Cardinality({j \in Jobs : Running(j)}) <= 1

\* C3: no step of a worker thread changes the progress variable, the text area
\* or the status label; they change only in the foreground's own steps.
C3_WorkerNeverWritesPresentation ==
    [][(\E j \in Jobs : Worker(j)) => UNCHANGED <<progress_var, text_output, status_label>>]_vars

\* C4: every path and language a thread reads is the one that was current at
\* the Process click that started it.
C4_ReadsAreSnapshot ==
    \A j \in Started :
        /\ threads[j].path_reads \subseteq {threads[j].req_path}
        /\ threads[j].lang_reads \subseteq {threads[j].req_lang}

\* Whether the error callback of thread j is still waiting in the queue.
ErrorPending(j) == \E n \in 1..Len(after_queue) : after_queue[n] = ErrorCallback(j)

\* C5: once the foreground has run the error callback a failed thread
\* scheduled, the error dialog has been shown with the error's message and the
\* callback raised nothing in the foreground.
C5_ErrorDeliveredWithoutException ==
    \A j \in Jobs :
        ("error" \in {threads[j].events[n] : n \in 1..Len(threads[j].events)} /\ ~ErrorPending(j))
            => threads[j].notice = "shown"

\* How many image_to_string calls of thread j have returned.
Completed(j) ==
    Cardinality({n \in 1..Len(threads[j].ocr_calls) : threads[j].ocr_calls[n][4]})

\* C6: the progress values a thread sets are non-decreasing; the first is 0 and
\* nothing else is set before an OCR call has returned; the value set after
\* page k of N is k/N of 100; 100 is set only as the update of the last page,
\* when all N OCR calls have returned.
C6_ProgressSequence ==
    \A j \in Started :
        LET em == threads[j].emitted
            N == threads[j].images_n
        IN  /\ \A k \in 1..(Len(em) - 1) : em[k][1] * em[k + 1][2] <= em[k + 1][1] * em[k][2]
            /\ Len(em) <= 1 + Completed(j)
            /\ \A k \in 1..Len(em) :
                   /\ k = 1 => em[k] = <<0, 1>>
                   /\ k > 1 => em[k][1] * N = (k - 1) * 100 * em[k][2]
                   /\ em[k] = <<100, 1>> => (k - 1 = N /\ Completed(j) = N)

\* C6 witness: a thread has ended after a document of two or more pages, having
\* set progress once at the start and once per page, the last time to 100.
C6_Witness ==
    \E j \in Jobs :
        /\ Done(j) /\ threads[j].images_n >= 2
        /\ Len(threads[j].emitted) = threads[j].images_n + 1
        /\ threads[j].emitted[Len(threads[j].emitted)] = <<100, 1>>

\* Whether thread j has scheduled its text update (its outcome is a success).
Succeeded(j) == \E n \in 1..Len(threads[j].events) : threads[j].events[n] = "text"

\* What the engine returned in call c.
Recognized(c) == OcrToken(c[1], c[2], c[3])

\* Every text update of thread j waiting in the queue carries `text`.
Delivers(j, text) ==
    \A n \in 1..Len(after_queue) :
        (after_queue[n].k = "text" /\ after_queue[n].job = j) => after_queue[n].text = text

\* The sections "--- Page n ---", newline, text of call n, for the calls in
\* order, with a blank line (two newlines) between consecutive sections.
RECURSIVE ExpectedSections(_)
ExpectedSections(calls) ==
    LET n == Len(calls)
        section == <<Marker(n), NL, Recognized(calls[n])>>
    IN  IF n = 0 THEN <<>>
        ELSE IF n = 1 THEN section
        ELSE ExpectedSections(SubSeq(calls, 1, n - 1)) \o <<NL, NL>> \o section

\* C7: a thread on the document branch recognises pages 1, 2, ... in that
\* order; when a document of N >= 2 pages succeeds, exactly the N pages were
\* recognised and the text it delivers is the N marked sections in order,
\* separated by a blank line.
C7_MultiPageAggregation ==
    \A j \in Started :
        LET t == threads[j]
        IN  t.file_extension = ".pdf" =>
              /\ \A p \in 1..Len(t.ocr_calls) :
                     t.ocr_calls[p][2] = p /\ t.ocr_calls[p][1] = t.images_src
              /\ (Succeeded(j) /\ t.images_n >= 2) =>
                     /\ Len(t.ocr_calls) = t.images_n
                     /\ Completed(j) = t.images_n
                     /\ t.final_text = ExpectedSections(t.ocr_calls)
                     /\ Delivers(j, ExpectedSections(t.ocr_calls))

\* C7 witness: a document of two or more pages has succeeded and its text
\* update waits in the queue.
C7_Witness ==
    \E j \in Jobs :
        /\ Succeeded(j) /\ threads[j].file_extension = ".pdf" /\ threads[j].images_n >= 2
        /\ \E n \in 1..Len(after_queue) : after_queue[n].k = "text" /\ after_queue[n].job = j

\* C8: when a thread on the image branch (extension other than .pdf) succeeds,
\* it made one OCR call, on the image it opened, and the text it delivers is
\* exactly what that call returned: no marker, no separator.
C8_ImageTextVerbatim ==
    \A j \in Started :
        LET t == threads[j]
        IN  (t.file_extension # "" /\ t.file_extension # ".pdf" /\ Succeeded(j)) =>
              /\ Len(t.ocr_calls) = 1
              /\ t.ocr_calls[1][1] = t.images_src /\ ~IsDocument(t.images_src)
              /\ t.final_text = <<Recognized(t.ocr_calls[1])>>
              /\ Delivers(j, <<Recognized(t.ocr_calls[1])>>)

\* C8 witness: an image has succeeded and its text update waits in the queue.
C8_Witness ==
    \E j \in Jobs :
        /\ Succeeded(j) /\ threads[j].file_extension = ".png"
        /\ \E n \in 1..Len(after_queue) : after_queue[n].k = "text" /\ after_queue[n].job = j

\* Whether a text holds a page marker.
HasMarker(text) == \E n \in 1..Len(text) : text[n].k = "marker"

ResolutionErrors == {"RasterizationError", "ImageDecodeError"}

\* C10: while a thread whose page resolution failed is in its handler (until it
\* ends), it has made no OCR call, its outcome is the failure outcome, and the
\* progress variable is 0.
C10_ResolutionFailureKeepsProgressZero ==
    \A j \in Jobs :
        (threads[j].pc \in {"L242", "L243", "L244"} /\ threads[j].e \in ResolutionErrors) =>
            /\ threads[j].ocr_calls = <<>>
            /\ OutcomePart(j) \in {<<>>, <<"error">>, FailureOutcome}
            /\ progress_var = <<0, 1>>

\* Whether thread j has scheduled a text update that still waits in the queue.
TextPending(j) ==
    \E n \in 1..Len(after_queue) : after_queue[n].k = "text" /\ after_queue[n].job = j

\* The text of the first m sections of thread j: what the pages recognised
\* before a failure would look like if they were delivered.
PartialText(j, m) == ExpectedSections(SubSeq(threads[j].ocr_calls, 1, m))

\* C11: when an OCR call of a thread raises, it is the thread's last call (no
\* later page is recognised), the thread goes to its handler and its outcome is
\* the failure outcome; it never schedules a text update, and neither the text
\* area nor the saved file holds the text of the pages it had recognised.
C11_PageFailureDiscardsPartialText ==
    \A j \in Started :
        LET t == threads[j]
            k == Len(t.ocr_calls)
        IN  /\ \A n \in 1..(k - 1) : t.ocr_calls[n][4]
            /\ (k >= 1 /\ ~t.ocr_calls[k][4]) =>
                  /\ t.pc \in {"L242", "L243", "L244", "done"}
                  /\ ~Succeeded(j) /\ ~TextPending(j)
                  /\ OutcomePart(j) \in {<<>>, <<"error">>, FailureOutcome}
                  /\ Done(j) => OutcomePart(j) = FailureOutcome
                  /\ \A m \in 1..(k - 1) :
                         /\ text_output # PartialText(j, m)
                         /\ disk.content # PartialText(j, m) \o <<NL>>

\* C11 witness: a thread has ended after the OCR call of its second page
\* raised, the first page having been recognised.
C11_Witness ==
    \E j \in Jobs :
        /\ Done(j) /\ Len(threads[j].ocr_calls) = 2
        /\ threads[j].ocr_calls[1][4] /\ ~threads[j].ocr_calls[2][4]
        /\ Len(threads[j].text_results) = 1

\* The callbacks thread j has scheduled, in order: its events without the
\* progress updates, which are not scheduled but set at once.
Scheduled(j) == SelectSeq(threads[j].events, LAMBDA ev : ev # "progress")

\* The callbacks of thread j that wait in the queue, in queue order, named as
\* in the thread's events.
CallbackName(cb) ==
    CASE cb.k = "text" -> "text"
      [] cb.k = "error" -> "error"
      [] OTHER -> cb.status[1]

Pending(j) ==
    LET mine == SelectSeq(after_queue, LAMBDA cb : cb.job = j)
    IN  [n \in 1..Len(mine) |-> CallbackName(mine[n])]

\* The callbacks of thread j wait in the order it scheduled them: they are the
\* last ones it scheduled.
PendingInOrder(j) ==
    /\ Len(Pending(j)) <= Len(Scheduled(j))
    /\ Pending(j) = SubSeq(Scheduled(j), Len(Scheduled(j)) - Len(Pending(j)) + 1,
                           Len(Scheduled(j)))

\* Nothing of thread j has reached the foreground before its "Processing..."
\* status: while that callback waits, the thread has set no progress value.
ProcessingFirst(j) ==
    (Len(Pending(j)) >= 1 /\ Pending(j)[1] = "Processing...") => threads[j].emitted = <<>>

\* The outcome is the last thing thread j sends: once it has scheduled an
\* outcome callback it sets no progress value and schedules nothing else.
OutcomeLast(j) ==
    /\ \A n \in 1..Preamble(j) : threads[j].events[n] \notin OutcomeEvents
    /\ OutcomePart(j) \in {<<>>, <<"text">>, SuccessOutcome, <<"error">>, FailureOutcome}

\* C12: the foreground receives what a job sends in order: the "Processing..."
\* status before any progress value of the job, the progress values before the
\* outcome, and the outcome last.
C12_NotificationsInOrder ==
    \A j \in Started : PendingInOrder(j) /\ ProcessingFirst(j) /\ OutcomeLast(j)

\* The parts of C12 that hold of the code: callbacks are delivered in the order
\* they were scheduled, and the outcome is the last thing a job sends.
C12_CallbacksInOrderOutcomeLast ==
    \A j \in Started : PendingInOrder(j) /\ OutcomeLast(j)

\* The warning of line 196.
SelectFirstWarning == <<"warning", "Please select a file first">>

\* C13: a Process click with no file selected shows the warning and changes
\* nothing else: no thread is started, nothing is scheduled, and the stored
\* language, the progress value, the status and the text area stay as they
\* were; so while no file has been selected no thread has ever been started.
C13_ProcessWithoutFileOnlyWarns ==
    /\ [](current_image_path = None =>
            (nthreads = 0 /\ Started = {} /\ after_queue = <<>>))
    /\ [][(current_image_path = None /\ process_file) =>
            (/\ dialog' = SelectFirstWarning
             /\ UNCHANGED <<current_image_path, language_entry, ocr_language,
                            progress_var, status_label, text_output, threads,
                            nthreads, after_queue, disk>>)]_vars

\* C13 witness: the warning is up, no file is selected, and the entry holds a
\* language that is not the stored one.
C13_Witness ==
    /\ current_image_path = None /\ dialog = SelectFirstWarning
    /\ language_entry = "xx" /\ ocr_language = "eng" /\ nthreads = 0

\* The warning of line 253.
NoTextWarning == <<"warning", "No text to save">>

\* Any run of save_text.
SaveStep == \E f \in SavePaths \cup {""}, ok \in BOOLEAN : save_text(f, ok)

\* C14: a Save with an empty or whitespace-only text area shows the warning and
\* writes nothing; a Save with a cancelled dialog writes nothing; a Save that
\* writes gives the file exactly the text the text area displays.
C14_SaveWritesDisplayedText ==
    [][SaveStep =>
         /\ IsBlank(text_output) => (disk' = disk /\ dialog' = NoTextWarning)
         /\ save_text("", TRUE) => disk' = disk
         /\ disk' # disk => disk' = [exists |-> TRUE, content |-> text_output]]_vars

\* What holds of the code: as C14, but the file gets the text followed by the
\* newline Tk's text widget keeps after its content.
C14_SaveWritesTextAndNewline ==
    [][SaveStep =>
         /\ IsBlank(text_output) => (disk' = disk /\ dialog' = NoTextWarning)
         /\ save_text("", TRUE) => disk' = disk
         /\ disk' # disk => disk' = [exists |-> TRUE, content |-> text_output \o <<NL>>]]_vars

\* Thread j has failed (both callbacks of its except handler are scheduled) and
\* the foreground has run all its callbacks.
FailureProcessed(j) ==
    OutcomePart(j) = FailureOutcome /\ Pending(j) = <<>>

\* A Process click now starts a new thread.
ProcessAccepted == ENABLED (process_file /\ nthreads' = nthreads + 1)

\* C15 as claimed: after a failure, once the job's callbacks have run, the
\* status is the "Ready" of the start, and a Process click starts a new job.
C15_StatusReadyAfterFailure ==
    \A j \in Jobs :
        FailureProcessed(j) =>
            /\ status_label = <<"Ready">>
            /\ nthreads < MaxJobs => ProcessAccepted

\* C15 amended: the last callback of a failed job sets the status to "Error
\* processing file"; after it the status is never the "Ready" of the start, and
\* a Process click still starts a new job.
C15_StatusErrorAfterFailure ==
    /\ [](\A j \in Jobs :
            FailureProcessed(j) =>
                /\ status_label # <<"Ready">>
                /\ nthreads < MaxJobs => ProcessAccepted)
    /\ [][\A j \in Jobs :
            (RunCallback /\ Pending(j) = <<"Error processing file">>
                         /\ Head(after_queue).job = j)
                => (status_label' = <<"Error processing file">> /\ FailureProcessed(j)')]_vars

\* C15 witness: a job has failed, its callbacks have run and left the status
\* "Error processing file", and a second job has been started.
C15_Witness ==
    /\ FailureProcessed(1) /\ status_label = <<"Error processing file">>
    /\ threads[2].pc = "L213"

\* The complete text of thread j: every page of the document it opened, marked
\* and joined, or the one text of the image it opened.
CompleteText(j) ==
    LET t == threads[j]
    IN  IF t.file_extension = ".pdf"
        THEN IF Len(t.ocr_calls) = t.images_n THEN ExpectedSections(t.ocr_calls) ELSE None
        ELSE IF Len(t.ocr_calls) = 1 THEN <<Recognized(t.ocr_calls[1])>> ELSE None

\* C16: in every reachable state the text area holds its initial empty content
\* or the complete text of one thread that succeeded and whose text update the
\* foreground has run; a text update replaces the whole content in one step.
C16_TextAreaHoldsOneCompleteText ==
    /\ [](\/ text_output = <<>>
          \/ \E j \in Started :
                /\ Succeeded(j) /\ ~TextPending(j)
                /\ \A n \in 1..Len(threads[j].ocr_calls) : threads[j].ocr_calls[n][4]
                /\ text_output = threads[j].final_text
                /\ text_output = CompleteText(j))
    /\ [][text_output' # text_output =>
             /\ RunCallback /\ Head(after_queue).k = "text"
             /\ text_output' = threads[Head(after_queue).job].final_text]_vars

\* C16 witness: two threads overlap; the second has succeeded and the text area
\* holds its text while the first is between the pages of its document.
C16_Witness ==
    /\ Succeeded(2) /\ text_output = threads[2].final_text /\ text_output # <<>>
    /\ threads[1].pc = "L227" /\ Len(threads[1].text_results) = 1

\* The two statuses that end a job.
OutcomeStatus == {<<"Processing complete">>, <<"Error processing file">>}

\* The statuses the user's own gestures set: a selection, a save.
GestureStatus ==
    {<<"Selected: ", basename(f)>> : f \in Files}
        \cup {<<"Selected PDF: ", basename(f)>> : f \in Files}
        \cup {<<"Saved to: ", basename(f)>> : f \in SavePaths}

\* Some thread was started, every started thread has finished and the
\* foreground has run every scheduled callback.
Quiescent == Started # {} /\ (\A j \in Started : Done(j)) /\ after_queue = <<>>

\* Every started thread has scheduled both callbacks of its outcome.
AllOutcomesScheduled == Started # {} /\ \A j \in Started : Len(OutcomePart(j)) = 2

\* C17 as claimed: once every started thread has finished and every callback
\* has run, the status is "Processing complete" or "Error processing file".
C17_QuiescentStatusIsOutcome == Quiescent => status_label \in OutcomeStatus

\* C17 amended: the callback that empties the queue after every started thread
\* has scheduled its outcome sets an outcome status; once all threads have
\* finished and all callbacks have run the status is never "Processing..." (nor
\* "Ready"): it is an outcome status or what a later selection or save wrote.
C17_QuiescentStatusNotProcessing ==
    /\ [](Quiescent => status_label \in OutcomeStatus \cup GestureStatus)
    /\ [][(RunCallback /\ AllOutcomesScheduled /\ after_queue' = <<>>)
              => status_label' \in OutcomeStatus]_vars
    /\ [][(Quiescent /\ status_label' # status_label)
              => status_label' \in GestureStatus]_vars

\* C17 witness: two overlapping threads have finished, one in success and one
\* in failure, every callback has run and the status is an outcome status.
C17_Witness ==
    /\ Quiescent /\ nthreads = 2 /\ status_label \in OutcomeStatus
    /\ OutcomePart(1) = FailureOutcome /\ OutcomePart(2) = SuccessOutcome

\* Thread 1 is the only thread ever started and the foreground has run the
\* text update of its success outcome.
SoloSuccessDelivered == nthreads = 1 /\ Succeeded(1) /\ ~TextPending(1)

\* C18: when a job runs with no other job in flight, the progress value is 100
\* whenever its success outcome is delivered, whatever the number of pages, a
\* document of zero pages included.
C18_SoloSuccessProgressHundred == SoloSuccessDelivered => progress_var = Hundred

\* C18 for what has something to recognise: an image, or a document of one page
\* or more.  A document of zero pages succeeds with the progress value at 0.
C18_SoloSuccessProgressHundredWithPages ==
    SoloSuccessDelivered =>
        IF threads[1].file_extension = ".pdf" /\ threads[1].images_n = 0
        THEN progress_var = Zero /\ threads[1].final_text = <<>>
        ELSE progress_var = Hundred

====
